---- MODULE Spec2Model ----
(***************************************************************************)
(* Model of the long-recording orchestration of vlorenzo/stgt:             *)
(*   - src/src/routes/long_recording.py  (SessionManager, process_segment,  *)
(*     the segment / status / enhance routes), specification Spec, and      *)
(*     SpecSeq with every request and one handler at a time;                *)
(*   - src/src/services/chunk_management.py and chunk_processor.py          *)
(*     (ChunkManager, ChunkProcessor), specification SpecBatch.             *)
(* Request handlers run on threads; a handler is cut into steps at the      *)
(* calls into the converter and the backends and at the shared-state        *)
(* accesses another thread can interleave with.                             *)
(***************************************************************************)
EXTENDS Integers, Sequences, FiniteSets, TLC

\* ------------------------------------------------------------------ bounds
MaxSessions == 1
MaxCMSessions == 2      \* session ids that uuid4 can hand out
MaxSeg == 2           \* segment numbers are 0..MaxSeg
MaxObjs == 2          \* SegmentInfo objects created over a run
MaxEnhance == 2       \* enhance calls that reach the enhancement backend
NumThreads == 2       \* request threads of the server
MaxChunks == 2        \* store_chunk calls over a run
MaxPasses == 2        \* process_session calls over a run, threads overlapping
MaxSeqPasses == 4     \* process_session calls over a run, one after the other
MaxCallPasses == 1     \* process_session calls over a run next to a caller's own calls
MaxMarked == 2         \* mark_chunk_processed calls counted in a session
MaxFailedMarks == 2    \* a caller's own mark_chunk_failed calls in a session

SessionIds == 1..MaxSessions
\* the ids ChunkManager.create_session can hand out over a run
CMSessionIds == 1..MaxCMSessions
UnknownSid == MaxSessions + 1       \* an id no session was created under
SegNums == 0..MaxSeg
Threads == 1..NumThreads

\* ------------------------------------------------------------------ text
\* A str is a sequence of characters; SP is the blank.
SP == " "
Texts == {<<SP>>, <<"a">>, <<"b">>}

RECURSIVE lstrip(_)
lstrip(s) == IF s # << >> /\ Head(s) = SP THEN lstrip(Tail(s)) ELSE s

RECURSIVE rstrip(_)
rstrip(s) ==
    IF s # << >> /\ s[Len(s)] = SP THEN rstrip(SubSeq(s, 1, Len(s) - 1)) ELSE s

\* no trimming at all
no_strip(s) == s

\* str.strip()
strip(s) == rstrip(lstrip(s))

\* ' '.join(parts), parts a sequence of str
RECURSIVE join(_)
join(parts) ==
    IF parts = << >> THEN << >>
    ELSE IF Len(parts) = 1 THEN parts[1]
    ELSE parts[1] \o <<SP>> \o join(Tail(parts))

\* Values a transcription field or a backend result can hold.
None == [k |-> "none", s |-> << >>]
NonStr == [k |-> "int", s |-> << >>]
Str(s) == [k |-> "str", s |-> s]
BackendResults == {None, NonStr} \cup {Str(s) : s \in Texts}

\* the three checks of process_segment / enhance_session on a transcription
IsValidTranscription(v) == v # None /\ v.k = "str" /\ strip(v.s) # << >>

\* ------------------------------------------------------------------ config
RequestConfigs ==
    { {"sourceLanguage", "targetLanguage", "outputType",
       "transcriptionModel", "enhancementModel"},
      {"source_language", "targetLanguage", "outputType",
       "transcriptionModel", "enhancementModel"} }
FormPatches == { {}, {"source_language"} }

key_mapping(k) ==
    CASE k = "audioSource" -> "audio_source"
      [] k = "targetLanguage" -> "target_language"
      [] k = "outputType" -> "output_type"
      [] k = "transcriptionModel" -> "transcription_model"
      [] k = "enhancementModel" -> "enhancement_model"
      [] OTHER -> k

normalize_config(config) == {key_mapping(k) : k \in config}

\* ------------------------------------------------------------------ state
VARIABLES
    sessions,   \* SessionManager.sessions: id -> RecordingSession or NoSession
    objs,       \* the SegmentInfo objects ever created, by object id
    files,      \* the files of the upload folder: <<sid, n, ext>>
    pc,         \* per thread: where its handler stands
    loc,        \* per thread: the local variables of its running handler
    last,       \* the handler that returned in the latest step: locals, response
    tcalls,     \* number of invocations of the transcription backend
    ecalls,     \* number of invocations of the enhancement backend
    active_sessions,  \* ChunkManager.active_sessions: id -> session dict
    pass,       \* per thread: the locals of its running process_session
    blast,      \* the process_session or cleanup_session that returned in the
                \* latest step
    npasses,    \* number of process_session calls so far
    failures,   \* per chunk id: how many workers given it have raised
    base_path   \* ChunkManager's storage: the session directories <<sid>>
                \* and the chunk files <<sid, seq>> that exist

\* the state of the routes, the state of the chunk services, all of it
lrvars == <<sessions, objs, files, pc, loc, last, tcalls, ecalls>>
cmvars == <<active_sessions, pass, blast, npasses, failures, base_path>>
vars == <<sessions, objs, files, pc, loc, last, tcalls, ecalls,
          active_sessions, pass, blast, npasses, failures, base_path>>

NoSession == [exists |-> FALSE]

\* RecordingSession.__init__; enhanced_by is history: the ordinal of the
\* enhance call that stored enhanced_text, 0 while none has
RecordingSession(config) ==
    [exists |-> TRUE, config |-> config, segments |-> << >>,
     status |-> "recording", error |-> "", combined_text |-> << >>,
     enhanced_text |-> None, enhanced_by |-> 0]

\* SegmentInfo.__init__
SegmentInfo(sid, n) ==
    [sid |-> sid, segment_number |-> n, status |-> "uploaded",
     wav_path |-> FALSE, transcription |-> None, error |-> ""]

\* The locals of a handler: op is the route, trans whether this call has set
\* the segment to transcribing, called whether it has invoked a backend,
\* wav_empty whether the converted file it passed on was empty, ord the
\* ordinal of its call among the calls of the enhancement backend.
NoLoc == [op |-> "none", sid |-> 0, n |-> 0, oid |-> 0, trans |-> FALSE,
          called |-> FALSE, wav_empty |-> FALSE,
          combined |-> << >>, total |-> 0, valid |-> 0, ord |-> 0]
\* a number as the fraction num / den
Fraction(num, den) == [num |-> num, den |-> den]
NoResp == [code |-> "none", err |-> "", text |-> None, progress |-> Fraction(0, 1)]
Resp(code, err) == [NoResp EXCEPT !.code = code, !.err = err]
NoLast == [loc |-> NoLoc, resp |-> NoResp]

\* session.segments is a dict: a sequence of <<key, object id>> in insertion
\* order; assigning an existing key keeps its position.
DictKeys(d) == {d[i][1] : i \in 1..Len(d)}
DictGet(d, k) ==
    IF k \in DictKeys(d)
    THEN (CHOOSE i \in 1..Len(d) : d[i][1] = k)
    ELSE 0
DictSet(d, k, v) ==
    IF k \in DictKeys(d)
    THEN [d EXCEPT ![DictGet(d, k)] = <<k, v>>]
    ELSE Append(d, <<k, v>>)
\* the object ids of session.segments.values(), in iteration order
DictValues(d) == [i \in 1..Len(d) |-> d[i][2]]

\* ------------------------------------------------------------------ files
\* SessionManager.get_segment_path: one file per <<sid, n, ext>>.
FileExists(F, sid, n, ext) == <<sid, n, ext>> \in F
FileRemove(F, sid, n, ext) == F \ {<<sid, n, ext>>}
FileWrite(F, sid, n, ext) == F \cup {<<sid, n, ext>>}

\* ------------------------------------------------------------------ Init
InitLR ==
    /\ sessions = [s \in SessionIds |-> NoSession]
    /\ objs = << >>
    /\ files = {}
    /\ pc = [t \in Threads |-> "idle"]
    /\ loc = [t \in Threads |-> NoLoc]
    /\ last = NoLast
    /\ tcalls = 0
    /\ ecalls = 0

\* a lookup that no longer finds a session once it is completed
get_session_unfinished(S, sid) ==
    IF sid \in SessionIds /\ S[sid].exists /\ S[sid].status # "completed"
    THEN S[sid] ELSE NoSession

\* a lookup that falls back on the first session for an id it does not hold
get_session_default(S, sid) ==
    IF sid \in SessionIds /\ S[sid].exists THEN S[sid] ELSE S[1]

\* SessionManager.get_session
get_session(S, sid) == IF sid \in SessionIds /\ S[sid].exists THEN S[sid] ELSE NoSession

\* The handler of thread t returns response r; L are its locals at that point.
Finish(t, L, r) ==
    /\ pc' = [pc EXCEPT ![t] = "idle"]
    /\ loc' = [loc EXCEPT ![t] = NoLoc]
    /\ last' = [loc |-> L, resp |-> r]

\* ------------------------------------------------------------------ create
\* create_session route with SessionManager.create_session: uuid4 gives an
\* id no session has.
CreateSession(t, config) ==
    /\ pc[t] = "idle"
    /\ \E sid \in SessionIds :
        /\ ~sessions[sid].exists
        /\ sessions' = [sessions EXCEPT
                            ![sid] = RecordingSession(normalize_config(config))]
        /\ Finish(t, [NoLoc EXCEPT !.op = "create", !.sid = sid], Resp("200", ""))
    /\ UNCHANGED <<objs, files, tcalls, ecalls, cmvars>>

\* ------------------------------------------------------------------ upload
NoField == MaxSessions + MaxSeg + 2   \* stands for a form field the request lacks

\* The upload requests: form fields session_id and segment_number, the
\* uploaded file (absent, of zero bytes, or with data), further form fields.
Request(sid, n, audio, patch) == [sid |-> sid, n |-> n, audio |-> audio, patch |-> patch]
\* well-formed uploads for a session id that was handed out
UploadRequests ==
    {Request(sid, n, "data", patch) :
        sid \in SessionIds, n \in SegNums, patch \in FormPatches}
\* uploads with a field missing, an unknown session or a file of zero bytes
BadRequests ==
    {Request(sid, n, "empty", patch) :
        sid \in SessionIds, n \in SegNums, patch \in FormPatches}
    \cup {Request(sid, 1, "data", {}) : sid \in {UnknownSid, NoField}}
    \cup {Request(sid, NoField, "data", {}) : sid \in SessionIds}
    \cup {Request(sid, 1, "absent", {}) : sid \in SessionIds}

\* process_segment_route up to the registration of the SegmentInfo
\* (lines 243-289).
SubmitSegment(t, req) ==
    LET sid == req.sid
        n == req.n
        L == [NoLoc EXCEPT !.op = "segment", !.sid = sid, !.n = n]
    IN
    /\ pc[t] = "idle"
    /\ IF n = NoField
       THEN \* int(None) raises TypeError, re-raised by the route
            /\ Finish(t, L, Resp("exc", "TypeError"))
            /\ UNCHANGED <<sessions, objs, files>>
       ELSE IF sid = NoField \/ n = 0 \/ req.audio = "absent"
       THEN \* not all([session_id, segment_number, audio_file])
            /\ Finish(t, L, Resp("400", "Missing required fields"))
            /\ UNCHANGED <<sessions, objs, files>>
       ELSE IF ~get_session(sessions, sid).exists
       THEN /\ Finish(t, L, Resp("404", "Session not found"))
            /\ UNCHANGED <<sessions, objs, files>>
       ELSE IF req.audio = "empty"
       THEN \* the config patch and the save come before the size check
            /\ sessions' = [sessions EXCEPT ![sid].config = @ \cup req.patch]
            /\ files' = FileRemove(files, sid, n, "webm")
            /\ Finish(t, L, Resp("400", "Uploaded file is empty"))
            /\ UNCHANGED objs
       ELSE /\ Len(objs) < MaxObjs
            /\ objs' = Append(objs, SegmentInfo(sid, n))
            /\ sessions' = [sessions EXCEPT
                    ![sid].config = @ \cup req.patch,
                    ![sid].segments = DictSet(@, n, Len(objs) + 1)]
            /\ files' = FileWrite(files, sid, n, "webm")
            /\ pc' = [pc EXCEPT ![t] = "stored"]
            /\ loc' = [loc EXCEPT ![t] = L]
            /\ last' = NoLast
    /\ UNCHANGED <<tcalls, ecalls, cmvars>>

\* an except clause that records the message and leaves the status as it is
FailSegment_keep_status(t, O, F, L, msg) ==
    /\ objs' = [O EXCEPT ![L.oid].error = msg]
    /\ files' = FileRemove(F, L.sid, L.n, "webm")
    /\ Finish(t, L, Resp("exc", msg))

\* an except clause that puts every segment in error
FailSegment_all(t, O, F, L, msg) ==
    /\ objs' = [o \in 1..Len(O) |-> [O[o] EXCEPT !.status = "error", !.error = msg]]
    /\ files' = FileRemove(F, L.sid, L.n, "webm")
    /\ Finish(t, L, Resp("exc", msg))

\* The except clause of process_segment (lines 205-210) followed by the
\* except clause of process_segment_route (lines 295-303): the segment is
\* put in error, the raw file removed, the error re-raised. O, F and L are
\* the objects, the files and the locals at the raise.
FailSegment(t, O, F, L, msg) ==
    /\ objs' = [O EXCEPT ![L.oid].status = "error", ![L.oid].error = msg]
    /\ files' = FileRemove(F, L.sid, L.n, "webm")
    /\ Finish(t, L, Resp("exc", msg))

\* process_segment lines 129-155, up to the call of the converter.
ProcessBegin(t) ==
    /\ pc[t] = "stored"
    /\ LET session == get_session(sessions, loc[t].sid)
           oid == session.segments[DictGet(session.segments, loc[t].n)][2]
           L == [loc[t] EXCEPT !.oid = oid]
           O1 == [objs EXCEPT ![oid].status = "converting"]
       IN  IF ~FileExists(files, L.sid, L.n, "webm")
           THEN FailSegment(t, O1, files, L, "Audio file not found")
           ELSE /\ objs' = O1
                /\ pc' = [pc EXCEPT ![t] = "converting"]
                /\ loc' = [loc EXCEPT ![t] = L]
                /\ last' = NoLast
                /\ UNCHANGED files
    /\ UNCHANGED <<sessions, tcalls, ecalls, cmvars>>

\* What a run of the converter can do: exit 0 with an output file (with or
\* without data), exit non-zero, or exit 0 without an output file.
ConverterOutcomes == {"ok", "ok_empty", "nonzero", "missing"}

\* convert_to_wav without the check of the return code
convert_to_wav_unchecked(outcome) ==
    IF outcome = "missing" THEN "FFmpeg did not create output file" ELSE ""

\* convert_to_wav lines 105-121: the message of the exception it raises for
\* an outcome of the converter, "" when it returns the output path
convert_to_wav(outcome) ==
    IF outcome = "nonzero" THEN "CalledProcessError"
    ELSE IF outcome = "missing" THEN "FFmpeg did not create output file"
    ELSE ""

\* convert_to_wav returns or raises; process_segment goes on to the call of
\* the transcription backend (lines 155-172).
ConvertReturn(t, outcome) ==
    /\ pc[t] = "converting"
    /\ LET L == loc[t]
           config == get_session(sessions, L.sid).config
           F1 == FileWrite(files, L.sid, L.n, "wav")
           O1 == [objs EXCEPT ![L.oid].wav_path = TRUE]
           O2 == [O1 EXCEPT ![L.oid].status = "transcribing"]
           L2 == [L EXCEPT !.trans = TRUE]
           L3 == [L2 EXCEPT !.called = TRUE, !.wav_empty = (outcome = "ok_empty")]
       IN  IF convert_to_wav(outcome) # ""
           THEN FailSegment(t, objs, files, L, convert_to_wav(outcome))
                /\ UNCHANGED tcalls
           ELSE IF "transcription_model" \notin config
           THEN FailSegment(t, O1, F1, L, "KeyError transcription_model")
                /\ UNCHANGED tcalls
           ELSE IF "source_language" \notin config
           THEN \* line 163 has set the status to transcribing
                FailSegment(t, O2, F1, L2, "KeyError source_language")
                /\ UNCHANGED tcalls
           ELSE /\ objs' = O2
                /\ files' = F1
                /\ tcalls' = tcalls + 1
                /\ loc' = [loc EXCEPT ![t] = L3]
                /\ pc' = [pc EXCEPT ![t] = "transcribing"]
                /\ last' = NoLast
    /\ UNCHANGED <<sessions, ecalls, cmvars>>

\* a readiness check over every SegmentInfo ever made, those a later upload
\* of the same number has replaced in session.segments included
all_objects_completed(session, O) ==
    \A o \in 1..Len(O) :
        O[o].status = "completed" /\ IsValidTranscription(O[o].transcription)

\* all(...) of process_segment lines 191-197 over session.segments.values()
all_completed(session, O) ==
    \A i \in 1..Len(session.segments) :
        LET seg == O[session.segments[i][2]]
        IN  seg.status = "completed" /\ IsValidTranscription(seg.transcription)

Raise == [k |-> "raise", s |-> << >>]

\* The transcription backend returns or raises; process_segment validates
\* the result, stores it and evaluates readiness (lines 169-197).
TranscribeReturn(t, result) ==
    /\ pc[t] = "transcribing"
    /\ LET L == loc[t]
           O1 == [objs EXCEPT ![L.oid].transcription = result,
                              ![L.oid].status = "completed"]
       IN  IF result = Raise
           THEN FailSegment(t, objs, files, L, "backend error")
           ELSE IF result = None
           THEN FailSegment(t, objs, files, L, "Transcription service returned None")
           ELSE IF result.k # "str"
           THEN FailSegment(t, objs, files, L, "Invalid transcription type")
           ELSE IF strip(result.s) = << >>
           THEN FailSegment(t, objs, files, L, "Transcription is empty")
           ELSE /\ objs' = O1
                /\ IF all_completed(get_session(sessions, L.sid), O1)
                   THEN /\ pc' = [pc EXCEPT ![t] = "ready"]
                        /\ last' = NoLast
                        /\ UNCHANGED loc
                   ELSE Finish(t, L, [Resp("200", "") EXCEPT !.text = result])
                /\ UNCHANGED files
    /\ UNCHANGED <<sessions, tcalls, ecalls, cmvars>>

\* process_segment lines 199-203: all_completed was true.
SetReady(t) ==
    /\ pc[t] = "ready"
    /\ sessions' = [sessions EXCEPT ![loc[t].sid].status = "ready_for_enhancement"]
    /\ Finish(t, loc[t], [Resp("200", "") EXCEPT
                            !.text = objs[loc[t].oid].transcription])
    /\ UNCHANGED <<objs, files, tcalls, ecalls, cmvars>>

\* ------------------------------------------------------------------ enhance
\* session.segments.values() as it comes, not sorted
insertion_order(values, O) == values

\* every segment taken as valid
all_segments(segments, O) == segments

\* sorted(values, key=lambda x: x.segment_number): a stable insertion sort
RECURSIVE insert_by_number(_, _, _)
insert_by_number(sorted, o, O) ==
    IF sorted = << >> THEN <<o>>
    ELSE IF O[o].segment_number < O[sorted[Len(sorted)]].segment_number
    THEN Append(insert_by_number(SubSeq(sorted, 1, Len(sorted) - 1), o, O),
                sorted[Len(sorted)])
    ELSE Append(sorted, o)

RECURSIVE sorted_segments(_, _)
sorted_segments(values, O) ==
    IF values = << >> THEN << >>
    ELSE insert_by_number(
            sorted_segments(SubSeq(values, 1, Len(values) - 1), O),
            values[Len(values)], O)

\* a loop that stops at the first valid segment
first_valid_only(segments, O) ==
    LET v == SelectSeq(segments, LAMBDA o : IsValidTranscription(O[o].transcription))
    IN  IF v = << >> THEN v ELSE <<v[1]>>

\* the loop of enhance_session lines 357-371
valid_segments(segments, O) ==
    SelectSeq(segments, LAMBDA o : IsValidTranscription(O[o].transcription))

\* a join of the error texts of the segments, empty for a valid segment
combined_errors(valid, O) == join([i \in 1..Len(valid) |-> << >>])

\* line 379
combined_text(valid, O) == join([i \in 1..Len(valid) |-> O[valid[i]].transcription.s])

\* what the enhancement backend makes of a text
enhance(text) == <<"E">> \o text

\* enhance_session up to the call of the enhancement backend (lines 339-400)
EnhanceBegin(t, sid) ==
    /\ pc[t] = "idle"
    /\ LET session == get_session(sessions, sid)
           segments == sorted_segments(DictValues(session.segments), objs)
           valid == valid_segments(segments, objs)
           text == combined_text(valid, objs)
           L0 == [NoLoc EXCEPT !.op = "enhance", !.sid = sid]
           L == [L0 EXCEPT !.total = Len(segments), !.valid = Len(valid),
                           !.combined = text]
       IN  IF ~session.exists
           THEN Finish(t, L0, Resp("500", "Session not found")) /\ UNCHANGED ecalls
           ELSE IF valid = << >>
           THEN Finish(t, L, Resp("500", "No valid transcriptions found in any segment"))
                /\ UNCHANGED ecalls
           ELSE IF strip(text) = << >>
           THEN Finish(t, L, Resp("500", "Combined transcription text is empty"))
                /\ UNCHANGED ecalls
           ELSE IF {"enhancement_model", "target_language", "output_type"}
                        \ session.config # {}
           THEN Finish(t, L, Resp("500", "KeyError")) /\ UNCHANGED ecalls
           ELSE /\ ecalls < MaxEnhance
                /\ ecalls' = ecalls + 1
                /\ pc' = [pc EXCEPT ![t] = "enhancing"]
                /\ loc' = [loc EXCEPT ![t] = [L EXCEPT !.called = TRUE,
                                                      !.ord = ecalls + 1]]
                /\ last' = NoLast
    /\ UNCHANGED <<sessions, objs, files, tcalls, cmvars>>

\* a handler that has set the session to completed before the backend
\* answers
EnhanceReturn_completes(t, ok) ==
    /\ pc[t] = "enhancing"
    /\ sessions' = [sessions EXCEPT
            ![loc[t].sid].enhanced_text =
                IF ok THEN Str(enhance(loc[t].combined)) ELSE @,
            ![loc[t].sid].enhanced_by = IF ok THEN loc[t].ord ELSE @,
            ![loc[t].sid].status = "completed"]
    /\ IF ok
       THEN Finish(t, loc[t], [Resp("200", "") EXCEPT
                                    !.text = Str(enhance(loc[t].combined))])
       ELSE Finish(t, loc[t], Resp("500", "enhancement backend error"))
    /\ UNCHANGED <<objs, files, tcalls, ecalls, cmvars>>

\* The enhancement backend returns or raises (lines 396-421).
EnhanceReturn(t, ok) ==
    /\ pc[t] = "enhancing"
    /\ IF ok
       THEN /\ sessions' = [sessions EXCEPT
                    ![loc[t].sid].enhanced_text = Str(enhance(loc[t].combined)),
                    ![loc[t].sid].enhanced_by = loc[t].ord,
                    ![loc[t].sid].status = "completed"]
            /\ Finish(t, loc[t], [Resp("200", "") EXCEPT
                                    !.text = Str(enhance(loc[t].combined))])
       ELSE /\ Finish(t, loc[t], Resp("500", "enhancement backend error"))
            /\ UNCHANGED sessions
    /\ UNCHANGED <<objs, files, tcalls, ecalls, cmvars>>

\* ------------------------------------------------------------------ status
\* the percentage without the test for a session without segments
progress_unguarded(processed, total) == Fraction(processed * 100, total)

\* line 327: (processed_segments / total_segments * 100) if total_segments > 0 else 0
progress_percentage(processed, total) ==
    IF total > 0 THEN Fraction(processed * 100, total) ELSE Fraction(0, 1)

\* get_status (lines 309-334): total_segments and processed_segments go to
\* the locals total and valid, combined_text to the text of the response.
GetStatus(t, sid) ==
    /\ pc[t] = "idle"
    /\ LET session == get_session(sessions, sid)
           L0 == [NoLoc EXCEPT !.op = "status", !.sid = sid]
           processed == {i \in 1..Len(session.segments) :
                            objs[session.segments[i][2]].status = "completed"}
           L == [L0 EXCEPT !.total = Len(session.segments),
                           !.valid = Cardinality(processed)]
       IN  IF ~session.exists
           THEN Finish(t, L0, Resp("404", "Session not found"))
           ELSE Finish(t, L, [Resp("200", "") EXCEPT
                    !.text = IF session.status = "completed"
                             THEN Str(session.combined_text) ELSE None,
                    !.progress = progress_percentage(L.valid, L.total)])
    /\ UNCHANGED <<sessions, objs, files, tcalls, ecalls, cmvars>>

\* process_segment (lines 129-135) called for a session id or a segment
\* number it does not find: ValueError, segment is still None in the
\* except clause (lines 205-210).
ProcessSegmentNotFound(t, sid, n) ==
    /\ pc[t] = "idle"
    /\ LET session == get_session(sessions, sid)
           L == [NoLoc EXCEPT !.op = "process", !.sid = sid, !.n = n]
       IN  IF ~session.exists
           THEN Finish(t, L, Resp("exc", "Session not found"))
           ELSE /\ n \notin DictKeys(session.segments)
                /\ Finish(t, L, Resp("exc", "Segment not found"))
    /\ UNCHANGED <<sessions, objs, files, tcalls, ecalls, cmvars>>

\* ------------------------------------------------------------------
\* ChunkManager (src/src/services/chunk_management.py)
max_workers == 3
MaxAttempts == 3

NoCMSession == [exists |-> FALSE]
\* an id whose session cleanup_session has deleted: a uuid4 is not handed out twice
DeletedCMSession == [exists |-> FALSE, deleted |-> TRUE]
\* 'result': None of a chunk that has no result dict yet
NoResult == [k |-> "noresult", s |-> << >>]

\* the session dict of ChunkManager.create_session, with the keys
\* process_session adds (result, completed_at)
NewCMSession ==
    [exists |-> TRUE, chunks |-> << >>, status |-> "recording",
     processed_chunks |-> 0, total_chunks |-> 0, current_phase |-> "recording",
     errors |-> << >>, result |-> None, completed_at |-> FALSE]

\* chunk_info of store_chunk; the id is f"{session_id}_{sequence}"
ChunkInfo(sid, seq) ==
    [id |-> <<sid, seq>>, sequence |-> seq, processed |-> FALSE,
     processing_attempts |-> 0, result |-> NoResult, error |-> ""]

InitBatch ==
    /\ active_sessions = [s \in CMSessionIds |-> NoCMSession]
    /\ pass = [t \in Threads |-> [pc |-> "idle"]]
    /\ blast = [status |-> "none"]
    /\ npasses = 0
    /\ failures = [id \in CMSessionIds \X SegNums |-> 0]
    /\ base_path = {}

\* ChunkManager.create_session: a fresh uuid4 out of ids, its directory made
CMCreateSession(ids) ==
    \E sid \in ids :
        /\ active_sessions[sid] = NoCMSession
        /\ active_sessions' = [active_sessions EXCEPT ![sid] = NewCMSession]
        /\ base_path' = base_path \cup {<<sid>>}
        /\ blast' = [status |-> "none"]
        /\ UNCHANGED <<pass, npasses, failures, lrvars>>

\* ChunkManager.store_chunk for a session that exists
store_chunk(A, sid, seq) ==
    LET chunks == Append(A[sid].chunks, ChunkInfo(sid, seq))
    IN  [A EXCEPT ![sid].chunks = chunks, ![sid].total_chunks = Len(chunks)]

TotalChunks(A) ==
    LET RECURSIVE Sum(_)
        Sum(S) == IF S = {} THEN 0
                  ELSE LET x == CHOOSE x \in S : TRUE
                       IN  (IF A[x].exists THEN Len(A[x].chunks) ELSE 0) + Sum(S \ {x})
    IN  Sum(CMSessionIds)

StoreChunk(sid, seq) ==
    /\ active_sessions[sid].exists
    /\ TotalChunks(active_sessions) < MaxChunks
    /\ active_sessions' = store_chunk(active_sessions, sid, seq)
    /\ base_path' = base_path \cup {<<sid, seq>>}
    /\ blast' = [status |-> "none"]
    /\ UNCHANGED <<pass, npasses, failures, lrvars>>

\* ChunkManager.get_chunk: the index of the first chunk with the id, 0 if none
get_chunk(A, sid, chunk_id) ==
    IF sid \in CMSessionIds /\ A[sid].exists
          /\ \E i \in 1..Len(A[sid].chunks) : A[sid].chunks[i].id = chunk_id
    THEN CHOOSE i \in 1..Len(A[sid].chunks) :
            /\ A[sid].chunks[i].id = chunk_id
            /\ \A j \in 1..(i - 1) : A[sid].chunks[j].id # chunk_id
    ELSE 0

\* mark_chunk_processed that sets the flag and drops the result
mark_without_result(A, sid, chunk_id, result) ==
    LET i == get_chunk(A, sid, chunk_id)
    IN  IF i = 0 THEN A
        ELSE [A EXCEPT ![sid].chunks[i].processed = TRUE,
                       ![sid].processed_chunks = @ + 1]

\* ChunkManager.mark_chunk_processed
mark_chunk_processed(A, sid, chunk_id, result) ==
    LET i == get_chunk(A, sid, chunk_id)
        n == A[sid].processed_chunks + 1
    IN  IF i = 0 THEN A
        ELSE [A EXCEPT ![sid].chunks[i].processed = TRUE,
                       ![sid].chunks[i].result = result,
                       ![sid].processed_chunks = n,
                       ![sid].current_phase =
                            IF n = A[sid].total_chunks THEN "completed" ELSE @]

\* ChunkManager.mark_chunk_failed
mark_chunk_failed(A, sid, chunk_id, error) ==
    LET i == get_chunk(A, sid, chunk_id)
    IN  IF i = 0 THEN A
        ELSE [A EXCEPT ![sid].chunks[i].error = error,
                       ![sid].chunks[i].processing_attempts = @ + 1,
                       ![sid].errors = Append(@, chunk_id)]

\* ChunkManager.get_unprocessed_chunks: the indices, in list order, of the
\* chunks not processed and with fewer than 3 attempts
get_unprocessed_chunks(A, sid) ==
    IF ~(sid \in CMSessionIds /\ A[sid].exists) THEN << >>
    ELSE SelectSeq([i \in 1..Len(A[sid].chunks) |-> i],
                   LAMBDA i : /\ ~A[sid].chunks[i].processed
                              /\ A[sid].chunks[i].processing_attempts < MaxAttempts)

\* the result dicts a caller hands to mark_chunk_processed: None (the
\* default) or one that holds a transcript
MarkResults == {None, Str(<<"a">>)}

\* A caller's own call of ChunkManager.mark_chunk_processed: it returns None
\* whether or not it found the chunk. The calls are counted in
\* processed_chunks, which bounds them.
MarkChunkProcessed(sid, chunk_id, result) ==
    /\ (sid \in CMSessionIds /\ active_sessions[sid].exists)
            => active_sessions[sid].processed_chunks < MaxMarked
    /\ active_sessions' = mark_chunk_processed(active_sessions, sid, chunk_id, result)
    /\ blast' = [status |-> "returned", op |-> "mark_chunk_processed", sid |-> sid,
                 chunk_id |-> chunk_id, value |-> << >>]
    /\ UNCHANGED <<pass, npasses, failures, base_path, lrvars>>

\* A caller's own call of ChunkManager.mark_chunk_failed: it returns None
\* whether or not it found the chunk. The session's errors list bounds the
\* calls.
MarkChunkFailed(sid, chunk_id) ==
    /\ (sid \in CMSessionIds /\ active_sessions[sid].exists)
            => Len(active_sessions[sid].errors) < MaxFailedMarks
    /\ active_sessions' = mark_chunk_failed(active_sessions, sid, chunk_id, "failed")
    /\ blast' = [status |-> "returned", op |-> "mark_chunk_failed", sid |-> sid,
                 chunk_id |-> chunk_id, value |-> << >>]
    /\ UNCHANGED <<pass, npasses, failures, base_path, lrvars>>

\* A caller's own call of ChunkManager.get_unprocessed_chunks: it returns
\* the list, the empty one for an id the registry does not hold.
GetUnprocessedChunks(sid) ==
    /\ blast' = [status |-> "returned", op |-> "get_unprocessed_chunks", sid |-> sid,
                 chunk_id |-> << >>,
                 value |-> get_unprocessed_chunks(active_sessions, sid)]
    /\ UNCHANGED <<active_sessions, pass, npasses, failures, base_path, lrvars>>

\* progress_percentage of ChunkManager.get_session_progress (line 190):
\* processed_chunks / max(total_chunks, 1) * 100
session_progress(A, sid) ==
    Fraction(A[sid].processed_chunks * 100,
             IF A[sid].total_chunks > 1 THEN A[sid].total_chunks ELSE 1)

\* ChunkManager.get_session: active_sessions.get(session_id)
CM_get_session(A, sid) == IF sid \in CMSessionIds /\ A[sid].exists THEN A[sid] ELSE None

\* the chunk files of a session that are in the storage
SessionFiles(D, sid) == {f \in D : Len(f) = 2 /\ f[1] = sid}

\* a cleanup that removes the session directory entry and no chunk file
cleanup_dir_only(D, A, sid) == D \ {<<sid>>}

\* cleanup_session lines 202-207: with the session directory there, every
\* listed chunk's file that exists is removed, then os.rmdir, which removes
\* an empty directory only
cleanup_files(D, A, sid) ==
    IF <<sid>> \notin D THEN D
    ELSE LET listed == {A[sid].chunks[i].id : i \in 1..Len(A[sid].chunks)}
             left == D \ listed
         IN  IF SessionFiles(left, sid) = {} THEN left \ {<<sid>>} ELSE left

\* ChunkManager.cleanup_session: KeyError for an id the registry does not
\* hold, OSError when os.rmdir finds a file left in the directory
CleanupSession(sid) ==
    /\ IF ~active_sessions[sid].exists
       THEN /\ blast' = [status |-> "exc", sid |-> sid, error |-> "KeyError"]
            /\ UNCHANGED <<active_sessions, base_path>>
       ELSE LET D == cleanup_files(base_path, active_sessions, sid)
            IN  /\ base_path' = D
                /\ IF <<sid>> \in D
                   THEN /\ blast' = [status |-> "exc", sid |-> sid, error |-> "OSError"]
                        /\ UNCHANGED active_sessions
                   ELSE /\ active_sessions' =
                                [active_sessions EXCEPT ![sid] = DeletedCMSession]
                        /\ blast' = [status |-> "cleanup", sid |-> sid,
                                     chunks |-> Len(active_sessions[sid].chunks)]
    /\ UNCHANGED <<pass, npasses, failures, lrvars>>

\* ------------------------------------------------------------------
\* ChunkProcessor (src/src/services/chunk_processor.py)

\* chunks.sort(key=lambda x: x['metadata']['sequence']): stable
RECURSIVE insert_by_sequence(_, _, _)
insert_by_sequence(sorted, i, C) ==
    IF sorted = << >> THEN <<i>>
    ELSE IF C[i].sequence < C[sorted[Len(sorted)]].sequence
    THEN Append(insert_by_sequence(SubSeq(sorted, 1, Len(sorted) - 1), i, C),
                sorted[Len(sorted)])
    ELSE Append(sorted, i)

RECURSIVE sort_chunks(_, _)
sort_chunks(idxs, C) ==
    IF idxs = << >> THEN << >>
    ELSE insert_by_sequence(sort_chunks(SubSeq(idxs, 1, Len(idxs) - 1), C),
                            idxs[Len(idxs)], C)

\* A future of the pass: the chunk (its index, id and sequence), where the
\* task stands (queued, running, ok, fail) and what _process_chunk returned.
Task(sid, i, C) ==
    [idx |-> i, id |-> C[i].id, sequence |-> C[i].sequence, st |-> "queued",
     res |-> None]

\* process_session lines 36-59: the session lookup, status processing, the
\* unprocessed chunks sorted, one future submitted per chunk.
BatchStart(t, sid, limit) ==
    /\ pass[t].pc = "idle"
    /\ npasses < limit
    /\ npasses' = npasses + 1
    /\ UNCHANGED <<base_path, lrvars>>
    /\ IF ~(sid \in CMSessionIds /\ active_sessions[sid].exists)
       THEN /\ blast' = [status |-> "exc", sid |-> sid, error |-> "Session not found"]
            /\ UNCHANGED <<active_sessions, pass, failures>>
       ELSE LET C == active_sessions[sid].chunks
                chunks == sort_chunks(get_unprocessed_chunks(active_sessions, sid), C)
                tasks == [k \in 1..Len(chunks) |-> Task(sid, chunks[k], C)]
            IN  /\ active_sessions' = [active_sessions EXCEPT ![sid].status = "processing"]
                /\ pass' = [pass EXCEPT ![t] =
                        [pc |-> "running", sid |-> sid, tasks |-> tasks,
                         results |-> << >>, failed_chunks |-> << >>]]
                /\ UNCHANGED failures
                /\ blast' = [status |-> "none"]

Running(p) == {k \in 1..Len(p.tasks) : p.tasks[k].st = "running"}
Queued(p) == {k \in 1..Len(p.tasks) : p.tasks[k].st = "queued"}

\* A pool thread takes the next queued future (ThreadPoolExecutor with
\* max_workers threads, work queue in submission order).
WorkerStart(t, k) ==
    /\ pass[t].pc = "running"
    /\ k \in Queued(pass[t])
    /\ \A j \in Queued(pass[t]) : k <= j
    /\ Cardinality(Running(pass[t])) < max_workers
    /\ pass' = [pass EXCEPT ![t].tasks[k].st = "running"]
    /\ blast' = [status |-> "none"]
    /\ UNCHANGED <<active_sessions, npasses, failures, base_path, lrvars>>

\* a loop that cancels the futures still pending when one has raised
collect_fail_fast(p, k, res) ==
    IF res # Raise
    THEN [p EXCEPT !.tasks[k].st = "ok", !.tasks[k].res = res,
                   !.results = DictSet(@, p.tasks[k].sequence, res)]
    ELSE [p EXCEPT !.tasks = [j \in 1..Len(p.tasks) |->
                        IF j = k THEN [p.tasks[j] EXCEPT !.st = "fail"]
                        ELSE IF p.tasks[j].st \in {"queued", "running"}
                        THEN [p.tasks[j] EXCEPT !.st = "cancelled"]
                        ELSE p.tasks[j]],
                   !.failed_chunks = Append(@, p.tasks[k].id)]

\* One round of the as_completed loop (lines 62-82) for a future that
\* finished with res, the return value of _process_chunk or Raise.
collect(p, k, res) ==
    IF res # Raise
    THEN [p EXCEPT !.tasks[k].st = "ok", !.tasks[k].res = res,
                   !.results = DictSet(@, p.tasks[k].sequence, res)]
    ELSE [p EXCEPT !.tasks[k].st = "fail",
                   !.failed_chunks = Append(@, p.tasks[k].id)]

\* _process_chunk (lines 116-141) returns or raises: the backend's result,
\* whatever it is, becomes the transcript. The as_completed loop then
\* handles the future (lines 62-82).
WorkerFinish(t, k, result) ==
    /\ pass[t].pc = "running"
    /\ k \in Running(pass[t])
    /\ pass' = [pass EXCEPT ![t] = collect(pass[t], k, result)]
    /\ active_sessions' =
            IF result # Raise
            THEN mark_chunk_processed(active_sessions, pass[t].sid,
                                      pass[t].tasks[k].id, result)
            ELSE active_sessions
    /\ failures' = IF result = Raise
                   THEN [failures EXCEPT ![pass[t].tasks[k].id] = @ + 1]
                   ELSE failures
    /\ blast' = [status |-> "none"]
    /\ UNCHANGED <<npasses, base_path, lrvars>>

\* sorted(results.keys()): the keys of the results dict in ascending order
RECURSIVE sorted_keys(_)
sorted_keys(K) ==
    IF K = {} THEN << >>
    ELSE LET m == CHOOSE m \in K : \A x \in K : m <= x
         IN  <<m>> \o sorted_keys(K \ {m})

\* _assemble_results (lines 143-169), given that every transcript is a str
assemble_results(results) ==
    LET sequences == sorted_keys(DictKeys(results))
        combined_transcript ==
            [j \in 1..Len(sequences) |-> results[DictGet(results, sequences[j])][2].s]
    IN  [transcript |-> Str(join(combined_transcript)), chunk_count |-> Len(sequences)]

\* ' '.join raises TypeError on an item that is not a str
JoinRaises(results) == \E j \in 1..Len(results) : results[j][2].k # "str"

\* session['status'] = status on the dict process_session got at its start:
\* a dict cleanup_session has taken out of the registry since is written
\* where no one sees it
set_status(A, sid, status) ==
    IF A[sid].exists THEN [A EXCEPT ![sid].status = status] ELSE A

\* process_session lines 84-114, once the loop and the executor are done
BatchFinish(t) ==
    /\ pass[t].pc = "running"
    /\ Running(pass[t]) = {} /\ Queued(pass[t]) = {}
    /\ LET p == pass[t]
           sid == p.sid
       IN  IF p.failed_chunks # << >>
           THEN /\ active_sessions' = set_status(active_sessions, sid, "partial_failure")
                /\ blast' = [status |-> "partial_failure", sid |-> sid,
                             failed_chunks |-> p.failed_chunks,
                             processed_chunks |-> Len(p.results),
                             tasks |-> p.tasks]
           ELSE IF JoinRaises(p.results)
           THEN /\ active_sessions' = set_status(active_sessions, sid, "failed")
                /\ blast' = [status |-> "exc", sid |-> sid, error |-> "TypeError",
                             tasks |-> p.tasks]
           ELSE /\ active_sessions' =
                        IF active_sessions[sid].exists
                        THEN [active_sessions EXCEPT
                                ![sid].status = "completed",
                                ![sid].completed_at = TRUE,
                                ![sid].result = assemble_results(p.results)]
                        ELSE active_sessions
                /\ blast' = [status |-> "success", sid |-> sid,
                             result |-> assemble_results(p.results),
                             processed_chunks |-> Len(p.results),
                             tasks |-> p.tasks]
    /\ pass' = [pass EXCEPT ![t] = [pc |-> "idle"]]
    /\ UNCHANGED <<npasses, failures, base_path, lrvars>>

\* ------------------------------------------------------------------ Spec
Init == InitLR /\ InitBatch

NextLR ==
    \/ \E t \in Threads, config \in RequestConfigs : CreateSession(t, config)
    \/ \E t \in Threads, req \in UploadRequests : SubmitSegment(t, req)
    \/ \E t \in Threads : ProcessBegin(t)
    \/ \E t \in Threads, outcome \in ConverterOutcomes : ConvertReturn(t, outcome)
    \/ \E t \in Threads, result \in BackendResults \cup {Raise} :
            TranscribeReturn(t, result)
    \/ \E t \in Threads : SetReady(t)
    \/ \E t \in Threads, sid \in SessionIds : EnhanceBegin(t, sid)
    \/ \E t \in Threads, ok \in BOOLEAN : EnhanceReturn(t, ok)

\* the long-recording routes
Spec == Init /\ [][NextLR]_vars

\* every request of the routes on the threads T: the uploads with a field
\* missing or an empty file and the requests for unknown ids included
NextRequestsOn(T) ==
    \/ \E t \in T, config \in RequestConfigs : CreateSession(t, config)
    \/ \E t \in T, req \in UploadRequests \cup BadRequests : SubmitSegment(t, req)
    \/ \E t \in T : ProcessBegin(t)
    \/ \E t \in T, outcome \in ConverterOutcomes : ConvertReturn(t, outcome)
    \/ \E t \in T, result \in BackendResults \cup {Raise} :
            TranscribeReturn(t, result)
    \/ \E t \in T : SetReady(t)
    \/ \E t \in T, sid \in SessionIds \cup {UnknownSid} : EnhanceBegin(t, sid)
    \/ \E t \in T, ok \in BOOLEAN : EnhanceReturn(t, ok)
    \/ \E t \in T, sid \in SessionIds \cup {UnknownSid} : GetStatus(t, sid)
    \/ \E t \in T, sid \in SessionIds \cup {UnknownSid}, n \in SegNums :
            ProcessSegmentNotFound(t, sid, n)

\* the routes with every request, one handler at a time
SpecSeq == Init /\ [][NextRequestsOn({1})]_vars

NextBatchOn(T, limit, ids) ==
    \/ CMCreateSession(ids)
    \/ \E sid \in ids, seq \in SegNums : StoreChunk(sid, seq)
    \/ \E t \in T, sid \in ids \cup {UnknownSid} : BatchStart(t, sid, limit)
    \/ \E t \in T, k \in 1..MaxChunks : WorkerStart(t, k)
    \/ \E t \in T, k \in 1..MaxChunks, result \in BackendResults \cup {Raise} :
            WorkerFinish(t, k, result)
    \/ \E t \in T : BatchFinish(t)

\* the chunk registry and the batch processor, passes of several threads
SpecBatch == Init /\ [][NextBatchOn(Threads, MaxPasses, SessionIds)]_vars

\* the same with the passes of one thread, one after the other
SpecBatchSeq == Init /\ [][NextBatchOn({1}, MaxSeqPasses, SessionIds)]_vars

\* the registry with session deletion: several sessions, the passes of one
\* thread, cleanup_session called between any two steps
NextRegistry ==
    \/ NextBatchOn({1}, MaxPasses, CMSessionIds)
    \/ \E sid \in CMSessionIds : CleanupSession(sid)

SpecRegistry == Init /\ [][NextRegistry]_vars



\* the registry with its operations called directly, next to the passes of
\* one thread
NextCalls ==
    \/ NextBatchOn({1}, MaxCallPasses, SessionIds)
    \/ \E sid \in SessionIds \cup {UnknownSid}, seq \in SegNums,
          result \in MarkResults :
            MarkChunkProcessed(sid, <<sid, seq>>, result)
    \/ \E sid \in SessionIds \cup {UnknownSid}, seq \in SegNums :
            MarkChunkFailed(sid, <<sid, seq>>)
    \/ \E sid \in SessionIds \cup {UnknownSid} : GetUnprocessedChunks(sid)

SpecCalls == Init /\ [][NextCalls]_vars

\* ==================================================================
\* Properties

\* the (segmentNumber, transcription) pairs registered in a session, as a set
RegisteredPairs(sid) ==
    {<<objs[o].segment_number, objs[o].transcription>> :
        o \in {sessions[sid].segments[i][2] : i \in 1..Len(sessions[sid].segments)}}
ValidPairs(sid) == {p \in RegisteredPairs(sid) : IsValidTranscription(p[2])}

\* the texts of a set of pairs, lowest number first, a blank in between
RECURSIVE AscJoin(_)
AscJoin(P) ==
    IF P = {} THEN << >>
    ELSE LET m == CHOOSE m \in P : \A q \in P : m[1] <= q[1]
         IN  IF P \ {m} = {} THEN m[2].s
             ELSE m[2].s \o <<SP>> \o AscJoin(P \ {m})

\* Every registered segment is completed with a valid transcription.
AllSegmentsCompleted(sid) ==
    \A i \in 1..Len(sessions[sid].segments) :
        LET seg == objs[sessions[sid].segments[i][2]]
        IN  seg.status = "completed" /\ IsValidTranscription(seg.transcription)

\* C1: the combined text that enhance_session builds is a function of the
\* set of (segmentNumber, transcript) pairs of the session alone: the valid
\* transcripts joined by single blanks in ascending segment number, whatever
\* the order in which the segments were uploaded and completed.
C1_CombinedTextBySegmentNumber ==
    [][\A t \in Threads, sid \in SessionIds :
        (EnhanceBegin(t, sid) /\ sessions[sid].exists)
            => (IF pc'[t] = "enhancing" THEN loc'[t].combined
                ELSE last'.loc.combined) = AscJoin(ValidPairs(sid))]_vars

\* C1 witness: enhance has built its text from two valid segments that were
\* registered with the higher number first.
C1_Witness ==
    \E t \in Threads :
        /\ pc[t] = "enhancing"
        /\ loc[t].valid = 2
        /\ LET d == sessions[loc[t].sid].segments
           IN  Len(d) = 2 /\ d[1][1] > d[2][1]
        /\ loc[t].combined = AscJoin(ValidPairs(loc[t].sid))

\* C2: a pass of process_session in which no worker raised returns success,
\* leaves the session completed with completed_at set, and its transcript is
\* the workers' transcripts joined by single blanks in ascending sequence.
C2_BatchAssemblesInOrder ==
    (blast.status \in {"success", "partial_failure", "exc"}
        /\ "tasks" \in DOMAIN blast
        /\ \A k \in 1..Len(blast.tasks) : blast.tasks[k].st = "ok")
    => /\ blast.status = "success"
       /\ active_sessions[blast.sid].status = "completed"
       /\ active_sessions[blast.sid].completed_at
       /\ blast.result.transcript.s =
            AscJoin({<<blast.tasks[k].sequence, blast.tasks[k].res>> :
                        k \in 1..Len(blast.tasks)})

\* C3: a session that is ready_for_enhancement has every registered segment
\* completed with a valid transcription (so registering a segment takes the
\* session out of ready_for_enhancement until that segment completes).
C3_ReadyMeansAllCompleted ==
    \A sid \in SessionIds :
        (sessions[sid].exists /\ sessions[sid].status = "ready_for_enhancement")
            => AllSegmentsCompleted(sid)

\* C4: process_segment writes ready_for_enhancement only in a state in which
\* every registered segment is completed with a valid transcription.
C4_ReadyWrittenOnlyWhenAllCompleted ==
    [][\A t \in Threads : SetReady(t) => AllSegmentsCompleted(loc[t].sid)]_vars

\* C5: enhance_session on a session without a valid segment answers "No
\* valid transcriptions found in any segment", does not call the enhancement
\* backend and changes neither the session nor a segment nor a file.
C5_EnhanceNoValidSegments ==
    [][\A t \in Threads, sid \in SessionIds :
        (EnhanceBegin(t, sid) /\ sessions[sid].exists /\ ValidPairs(sid) = {})
            => /\ last'.resp.code = "500"
               /\ last'.resp.err = "No valid transcriptions found in any segment"
               /\ pc'[t] = "idle"
               /\ ecalls' = ecalls
               /\ sessions' = sessions /\ objs' = objs /\ files' = files]_vars

\* C5 witness: enhance has refused a session that has segments, none valid.
C5_Witness ==
    /\ last.loc.op = "enhance"
    /\ last.resp.err = "No valid transcriptions found in any segment"
    /\ last.loc.total >= 1
    /\ ecalls = 0

\* C6: when the converter fails, the process_segment call puts the segment
\* in error with a non-empty message; that call has not set the segment to
\* transcribing and does not invoke the transcription backend.
C6_ConverterFailure ==
    [][\A t \in Threads, outcome \in {"nonzero", "missing"} :
        ConvertReturn(t, outcome)
            => /\ objs'[loc[t].oid].status = "error"
               /\ objs'[loc[t].oid].error # ""
               /\ ~last'.loc.trans /\ ~last'.loc.called
               /\ tcalls' = tcalls
               /\ pc'[t] = "idle" /\ last'.resp.code = "exc"]_vars

\* C6 witness: an upload has ended on a converter failure, its segment is in
\* error and the backend was never invoked.
C6_Witness ==
    /\ last.loc.op = "segment"
    /\ last.resp.err \in {"CalledProcessError", "FFmpeg did not create output file"}
    /\ objs[last.loc.oid].status = "error"
    /\ tcalls = 0

\* the chunks of active session sid that carry the id
ChunksWithId(sid, id) ==
    {i \in 1..Len(active_sessions[sid].chunks) : active_sessions[sid].chunks[i].id = id}

\* C7: every worker failure adds one to the chunk's processing_attempts, so
\* a chunk whose workers have raised in three passes is neither listed by
\* get_unprocessed_chunks nor in flight in a later pass.
C7_RetryCeiling ==
    \A sid \in SessionIds : active_sessions[sid].exists =>
        \A i \in 1..Len(active_sessions[sid].chunks) :
            LET c == active_sessions[sid].chunks[i]
            IN  (Cardinality(ChunksWithId(sid, c.id)) = 1
                    /\ failures[c.id] >= MaxAttempts)
                => /\ \A j \in 1..Len(get_unprocessed_chunks(active_sessions, sid)) :
                        get_unprocessed_chunks(active_sessions, sid)[j] # i
                   /\ \A t \in Threads : pass[t].pc = "running" =>
                        \A k \in 1..Len(pass[t].tasks) :
                            pass[t].tasks[k].id = c.id
                                => pass[t].tasks[k].st \in {"ok", "fail"}

\* the returned pass has tasks and one of them raised
PassWithFailure ==
    /\ "tasks" \in DOMAIN blast
    /\ \E k \in 1..Len(blast.tasks) : blast.tasks[k].st # "ok"

\* the chunk that get_chunk finds for a task is flagged processed, with a result
Kept(task) ==
    LET i == get_chunk(active_sessions, blast.sid, task.id)
    IN  /\ i # 0
        /\ active_sessions[blast.sid].chunks[i].processed
        /\ active_sessions[blast.sid].chunks[i].result # NoResult

\* C8: when a worker of a pass has raised, every task of the pass has still
\* run to its end (none is cancelled or left pending), and each one that
\* succeeded has its chunk marked processed with a result stored.
C8_FailureIsolation ==
    PassWithFailure =>
        \A k \in 1..Len(blast.tasks) :
            /\ blast.tasks[k].st \in {"ok", "fail"}
            /\ blast.tasks[k].st = "ok" => Kept(blast.tasks[k])

\* C8 witness: a pass returned in which one worker raised and another
\* succeeded.
C8_Witness ==
    /\ PassWithFailure
    /\ \E k \in 1..Len(blast.tasks) : blast.tasks[k].st = "ok"
    /\ \E k \in 1..Len(blast.tasks) : blast.tasks[k].st = "fail"

\* C9: a pass with at least one failed worker returns partial_failure and
\* leaves the session partial_failure; failed_chunks holds exactly the chunks
\* whose worker failed, processed_chunks counts the sequence numbers that
\* succeeded, and the chunks that succeeded stay marked processed with a
\* result.
C9_PartialFailureResult ==
    PassWithFailure =>
        LET failed == {k \in 1..Len(blast.tasks) : blast.tasks[k].st = "fail"}
            ok == {k \in 1..Len(blast.tasks) : blast.tasks[k].st = "ok"}
        IN  /\ blast.status = "partial_failure"
            /\ active_sessions[blast.sid].status = "partial_failure"
            /\ Len(blast.failed_chunks) = Cardinality(failed)
            /\ {blast.failed_chunks[j] : j \in 1..Len(blast.failed_chunks)}
                    = {blast.tasks[k].id : k \in failed}
            /\ blast.processed_chunks
                    = Cardinality({blast.tasks[k].sequence : k \in ok})
            /\ \A k \in ok : Kept(blast.tasks[k])

\* C9 witness: a pass returned partial_failure with one chunk processed and
\* one failed.
C9_Witness ==
    /\ PassWithFailure
    /\ blast.status = "partial_failure"
    /\ blast.processed_chunks = 1
    /\ Len(blast.failed_chunks) = 1

\* thread t is inside process_segment, past the lookup of its segment
InProcessSegment(t) == pc[t] \in {"converting", "transcribing", "ready"}

\* C10: no two executions of process_segment, and no two workers of
\* _process_chunk, are under way for the same (session, segment number).
C10_NoOverlapOnSegment ==
    /\ \A t1, t2 \in Threads :
        (t1 # t2 /\ InProcessSegment(t1) /\ InProcessSegment(t2))
            => <<loc[t1].sid, loc[t1].n>> # <<loc[t2].sid, loc[t2].n>>
    /\ \A t1, t2 \in Threads :
        (pass[t1].pc = "running" /\ pass[t2].pc = "running") =>
            \A k1 \in Running(pass[t1]), k2 \in Running(pass[t2]) :
                (<<t1, k1>> # <<t2, k2>>)
                    => pass[t1].tasks[k1].id # pass[t2].tasks[k2].id

\* the status process_session writes when it returns with the given outcome
StatusOfOutcome(outcome) ==
    CASE outcome = "success" -> "completed"
      [] outcome = "partial_failure" -> "partial_failure"
      [] OTHER -> "failed"

\* C11: once no pass is under way on a session, its processed_chunks equals
\* the number of its chunks flagged processed, and when a pass has just
\* returned the session status is the one that pass wrote.
C11_AggregatesConsistent ==
    \A sid \in SessionIds :
        (active_sessions[sid].exists
            /\ \A t \in Threads : pass[t].pc = "running" => pass[t].sid # sid)
        => /\ active_sessions[sid].processed_chunks =
                Cardinality({i \in 1..Len(active_sessions[sid].chunks) :
                                active_sessions[sid].chunks[i].processed})
           /\ ("tasks" \in DOMAIN blast /\ blast.sid = sid)
                => active_sessions[sid].status = StatusOfOutcome(blast.status)

\* C12: an enhance call that returns after a call that started later has
\* stored its text leaves that text in place: the stored enhanced text is
\* never replaced by the text of an earlier-started call.
C12_EnhanceCallsDoNotInterleave ==
    [][\A t \in Threads :
        (EnhanceReturn(t, TRUE)
            /\ sessions[loc[t].sid].enhanced_by > loc[t].ord)
        => sessions'[loc[t].sid].enhanced_text
                = sessions[loc[t].sid].enhanced_text]_vars

\* C13: an enhance call made right after a successful enhance of the same
\* session, nothing else in between, reaches the enhancement backend once
\* and with the same combined text; a call that succeeds returns and stores
\* the backend's text for its combined text and leaves the session
\* completed, without a further backend call. With a deterministic backend
\* the two calls so return the same text, after two invocations in all.
C13_EnhanceTwiceInSequence ==
    [][/\ \A t \in Threads, sid \in SessionIds :
            (EnhanceBegin(t, sid) /\ last.loc.op = "enhance"
                /\ last.loc.sid = sid /\ last.resp.code = "200")
            => /\ pc'[t] = "enhancing"
               /\ loc'[t].combined = last.loc.combined
               /\ ecalls' = ecalls + 1
       /\ \A t \in Threads :
            EnhanceReturn(t, TRUE)
            => /\ ecalls' = ecalls
               /\ last'.resp.text = Str(enhance(loc[t].combined))
               /\ sessions'[loc[t].sid].enhanced_text = last'.resp.text
               /\ sessions'[loc[t].sid].status = "completed"]_vars

\* C13 witness: the second of two enhance calls has returned the text the
\* first one stored, the session is completed, the backend was called twice.
C13_Witness ==
    /\ last.loc.op = "enhance" /\ last.resp.code = "200"
    /\ last.loc.ord = 2 /\ ecalls = 2
    /\ sessions[last.loc.sid].status = "completed"
    /\ sessions[last.loc.sid].enhanced_text = last.resp.text
    /\ last.resp.text = Str(enhance(AscJoin(ValidPairs(last.loc.sid))))

\* a text that holds nothing but blanks (the empty text included)
Blank(s) == \A i \in 1..Len(s) : s[i] = SP
\* a value that is present, of text type and not blank
ValidText(v) == v.k = "str" /\ ~Blank(v.s)

\* C14: every completed segment holds a valid transcription, and when the
\* backend returns, process_segment stores the result and completes the
\* segment if the result is a non-blank text, and otherwise puts the
\* segment in error and stores nothing.
C14_CompletedMeansValid ==
    /\ [](\A o \in 1..Len(objs) :
            objs[o].status = "completed" => ValidText(objs[o].transcription))
    /\ [][\A t \in Threads, result \in BackendResults :
            TranscribeReturn(t, result)
            => IF ValidText(result)
               THEN /\ objs'[loc[t].oid].status = "completed"
                    /\ objs'[loc[t].oid].transcription = result
               ELSE /\ objs'[loc[t].oid].status = "error"
                    /\ objs'[loc[t].oid].error # ""
                    /\ objs'[loc[t].oid].transcription
                            = objs[loc[t].oid].transcription]_vars

\* C14 witness: one segment was completed and another was put in error for
\* a blank transcript.
C14_Witness ==
    /\ \E o \in 1..Len(objs) :
            objs[o].status = "completed" /\ ValidText(objs[o].transcription)
    /\ \E o \in 1..Len(objs) :
            objs[o].status = "error" /\ objs[o].error = "Transcription is empty"

\* the step is one of thread t's process_segment call
ProcessStep(t) ==
    \/ ProcessBegin(t)
    \/ \E outcome \in ConverterOutcomes : ConvertReturn(t, outcome)
    \/ \E result \in BackendResults \cup {Raise} : TranscribeReturn(t, result)
    \/ SetReady(t)

OwnSegmentAfter(t) == IF pc'[t] = "idle" THEN last'.loc.oid ELSE loc'[t].oid

CompletedValidPairs(sid) ==
    {<<objs[o].segment_number, objs[o].transcription>> :
        o \in {x \in {sessions[sid].segments[i][2] :
                        i \in 1..Len(sessions[sid].segments)} :
                    /\ objs[x].status = "completed"
                    /\ IsValidTranscription(objs[x].transcription)}}

\* C17: the combined text of enhance_session is built from exactly the
\* registered segments that are completed with a valid transcription; a
\* segment in another status adds nothing, whatever transcription it holds.
C17_EnhanceUsesCompletedOnly ==
    [][\A t \in Threads, sid \in SessionIds :
        (EnhanceBegin(t, sid) /\ sessions[sid].exists)
        => LET L == IF pc'[t] = "enhancing" THEN loc'[t] ELSE last'.loc
           IN  /\ L.combined = AscJoin(CompletedValidPairs(sid))
               /\ L.valid = Cardinality(CompletedValidPairs(sid))]_vars

\* C18: an enhance call that goes to the backend has counted as total the
\* segments registered in the session and as valid the segments whose
\* text it combined, with 1 <= valid <= total; when the backend returns it
\* stores the enhanced text, sets the session completed and answers 200
\* with that text and those counts.
C18_EnhanceSuccessResult ==
    [][/\ \A t \in Threads, sid \in SessionIds :
            (EnhanceBegin(t, sid) /\ pc'[t] = "enhancing")
            => /\ loc'[t].total = Len(sessions[sid].segments)
               /\ loc'[t].valid = Cardinality(ValidPairs(sid))
               /\ loc'[t].combined = AscJoin(ValidPairs(sid))
               /\ 1 <= loc'[t].valid /\ loc'[t].valid <= loc'[t].total
       /\ \A t \in Threads :
            EnhanceReturn(t, TRUE)
            => /\ last'.resp.code = "200"
               /\ last'.resp.text = Str(enhance(loc[t].combined))
               /\ last'.loc.total = loc[t].total
               /\ last'.loc.valid = loc[t].valid
               /\ sessions'[loc[t].sid].enhanced_text = last'.resp.text
               /\ sessions'[loc[t].sid].status = "completed"]_vars

\* C18 witness: enhance has succeeded on a session of two segments, one of
\* them valid, and the session holds the text it returned.
C18_Witness ==
    /\ last.loc.op = "enhance" /\ last.resp.code = "200"
    /\ last.loc.total = 2 /\ last.loc.valid = 1
    /\ sessions[last.loc.sid].status = "completed"
    /\ sessions[last.loc.sid].enhanced_text = last.resp.text

\* no session was created under the id
UnknownSession(sid) == ~(sid \in SessionIds /\ sessions[sid].exists)
\* the sessions, the segments and the files are what they were
RoutesStateUnchanged == sessions' = sessions /\ objs' = objs /\ files' = files

\* C19: process_segment for an unknown session id, or for a segment number
\* the session does not hold, raises its not-found error and changes
\* nothing; an upload, a status request and an enhance request for an
\* unknown session id fail (the upload with 404 when its fields are all
\* there, the status request with 404) and create or change nothing.
C19_UnknownIdsChangeNothing ==
    [][/\ \A t \in Threads, sid \in SessionIds \cup {UnknownSid}, n \in SegNums :
            (ProcessSegmentNotFound(t, sid, n)
                /\ (UnknownSession(sid)
                        \/ n \notin DictKeys(sessions[sid].segments)))
            => /\ last'.resp.code = "exc"
               /\ last'.resp.err = IF UnknownSession(sid) THEN "Session not found"
                                   ELSE "Segment not found"
               /\ pc'[t] = "idle" /\ RoutesStateUnchanged
       /\ \A t \in Threads, req \in UploadRequests \cup BadRequests :
            (SubmitSegment(t, req) /\ UnknownSession(req.sid))
            => /\ pc'[t] = "idle" /\ last'.resp.code \in {"400", "404", "exc"}
               /\ (req.sid # NoField /\ req.n \in 1..MaxSeg /\ req.audio # "absent")
                    => last'.resp.code = "404"
               /\ RoutesStateUnchanged
       /\ \A t \in Threads, sid \in SessionIds \cup {UnknownSid} :
            (GetStatus(t, sid) /\ UnknownSession(sid))
            => last'.resp.code = "404" /\ RoutesStateUnchanged
       /\ \A t \in Threads, sid \in SessionIds \cup {UnknownSid} :
            (EnhanceBegin(t, sid) /\ UnknownSession(sid))
            => /\ pc'[t] = "idle" /\ last'.resp.code = "500"
               /\ last'.resp.err = "Session not found"
               /\ ecalls' = ecalls /\ RoutesStateUnchanged]_vars

\* C19 witness: process_segment was called for a number that a session with
\* a registered segment does not hold, and raised.
C19_Witness ==
    /\ last.loc.op = "process" /\ last.resp.err = "Segment not found"
    /\ sessions[last.loc.sid].exists
    /\ Len(sessions[last.loc.sid].segments) >= 1

\* C20: an upload with segment number 0, a known session and a file with
\* data is registered under number 0 and goes on to be processed.
C20_SegmentZeroAccepted ==
    [][\A t \in Threads, req \in UploadRequests :
        (SubmitSegment(t, req) /\ req.n = 0 /\ ~UnknownSession(req.sid))
        => /\ pc'[t] = "stored"
           /\ 0 \in DictKeys(sessions'[req.sid].segments)]_vars

\* C21: a session holds at most one segment per segment number, in
\* session.segments of the session manager and in the chunk list of
\* ChunkManager alike.
C21_OneSegmentPerNumber ==
    /\ \A sid \in SessionIds : sessions[sid].exists =>
            \A i, j \in 1..Len(sessions[sid].segments) :
                sessions[sid].segments[i][1] = sessions[sid].segments[j][1] => i = j
    /\ \A sid \in SessionIds : active_sessions[sid].exists =>
            \A i, j \in 1..Len(active_sessions[sid].chunks) :
                active_sessions[sid].chunks[i].sequence
                    = active_sessions[sid].chunks[j].sequence => i = j

\* the registered segments of a session that are in status completed
CompletedSegments(sid) ==
    {i \in 1..Len(sessions[sid].segments) :
        objs[sessions[sid].segments[i][2]].status = "completed"}

\* C22: get_status on a session answers with total_segments the number of
\* registered segments, processed_segments the number of them in status
\* completed, progress_percentage processed / total * 100 (0 for a session
\* without segments, at most 100), and a combined_text only when the session
\* status is completed.
C22_StatusReport ==
    [][\A t \in Threads, sid \in SessionIds :
        (GetStatus(t, sid) /\ sessions[sid].exists)
        => LET r == last'.resp
               total == Len(sessions[sid].segments)
               processed == Cardinality(CompletedSegments(sid))
           IN  /\ r.code = "200"
               /\ last'.loc.total = total
               /\ last'.loc.valid = processed
               /\ r.progress.den > 0
               /\ IF total = 0 THEN r.progress.num = 0
                  ELSE r.progress.num * total = processed * 100 * r.progress.den
               /\ r.progress.num <= 100 * r.progress.den
               /\ (r.text # None) => sessions[sid].status = "completed"
               /\ RoutesStateUnchanged]_vars

\* C22 witness: a status request was answered for a session with two
\* segments, one of them completed.
C22_Witness ==
    /\ last.loc.op = "status" /\ last.resp.code = "200"
    /\ last.loc.total = 2 /\ last.loc.valid = 1
    /\ last.resp.progress = Fraction(100, 2)

\* the five recognized keys as a client gives them, and as the pipeline
\* reads them
RecognizedKeys ==
    {"sourceLanguage", "targetLanguage", "outputType",
     "transcriptionModel", "enhancementModel"}
PipelineKeys ==
    {"source_language", "target_language", "output_type",
     "transcription_model", "enhancement_model"}

\* C23: in a session created with the five recognized keys and never
\* patched by a form field, the configuration holds every key under the
\* name the pipeline reads, and process_segment, once the converter has
\* succeeded, goes on to call the transcription backend.
C23_ConfigKeysReachPipeline ==
    [][\A t \in Threads, outcome \in {"ok", "ok_empty"} :
        (ConvertReturn(t, outcome)
            /\ sessions[loc[t].sid].config = normalize_config(RecognizedKeys))
        => /\ PipelineKeys \subseteq sessions[loc[t].sid].config
           /\ pc'[t] = "transcribing"
           /\ tcalls' = tcalls + 1]_vars

\* ------------------------------------------------------------------ C24
\* C24: cleanup_session of a registered session leaves the id absent from
\* the registry (get_session returns None, get_unprocessed_chunks is
\* empty), leaves neither its directory nor a chunk file of it in the
\* storage, and leaves every other session and its files as they were; a
\* deleted session has no entry in the storage at any later time either,
\* whatever a pass still running on it does.
OfSession(D, sid) == {f \in D : f[1] = sid}

C24_CleanupDeletesSession ==
    /\ [](\A sid \in CMSessionIds :
            active_sessions[sid] = DeletedCMSession => OfSession(base_path, sid) = {})
    /\ [][\A sid \in CMSessionIds :
            (active_sessions[sid].exists /\ CleanupSession(sid)) =>
                (/\ ~active_sessions'[sid].exists
                 /\ CM_get_session(active_sessions', sid) = None
                 /\ get_unprocessed_chunks(active_sessions', sid) = << >>
                 /\ OfSession(base_path', sid) = {}
                 /\ \A o \in CMSessionIds \ {sid} :
                        /\ active_sessions'[o] = active_sessions[o]
                        /\ OfSession(base_path', o) = OfSession(base_path, o))]_vars

\* a session with a stored chunk and a pass running on it has just been
\* cleaned up, while another session still holds a chunk and its file
C24_Witness ==
    /\ blast.status = "cleanup"
    /\ blast.chunks >= 1
    /\ pass[1].pc = "running" /\ pass[1].sid = blast.sid
    /\ \E o \in CMSessionIds \ {blast.sid} :
            /\ active_sessions[o].exists
            /\ Len(active_sessions[o].chunks) >= 1
            /\ SessionFiles(base_path, o) # {}

\* ------------------------------------------------------------------ C25
\* C25: when a submitSegment request fails in the pipeline (conversion,
\* backend or validation), neither the raw file nor the converted file of
\* its segment remains once the request has returned.
C25_FailedSegmentFilesRemoved ==
    [][\A t \in Threads :
        (ProcessStep(t) /\ last'.resp.code = "exc")
        => /\ ~FileExists(files', last'.loc.sid, last'.loc.n, "webm")
           /\ ~FileExists(files', last'.loc.sid, last'.loc.n, "wav")]_vars

\* ------------------------------------------------------------------ C26
\* the moves of a SegmentInfo's status the claim allows
StatusMoves ==
    {<<"uploaded", "converting">>, <<"converting", "transcribing">>,
     <<"transcribing", "completed">>, <<"converting", "error">>,
     <<"transcribing", "error">>}

\* C26: the status of a SegmentInfo changes only along uploaded ->
\* converting -> transcribing -> completed, no step skipped or reversed,
\* and to error only from converting or transcribing; error is final. The
\* one step of a handler that writes the status twice before the next
\* suspension point is the file check of process_segment, which writes
\* converting and then error.
C26_SegmentStatusOrder ==
    [][\A o \in 1..Len(objs) :
        \/ objs'[o].status = objs[o].status
        \/ <<objs[o].status, objs'[o].status>> \in StatusMoves
        \/ /\ <<objs[o].status, objs'[o].status>> = <<"uploaded", "error">>
           /\ \E t \in Threads : ProcessBegin(t)]_vars

\* ------------------------------------------------------------------ C27
SessionRank(status) ==
    IF status = "recording" THEN 0
    ELSE IF status = "ready_for_enhancement" THEN 1
    ELSE 2

\* C27: the status of a session never moves backwards along recording ->
\* ready_for_enhancement -> completed, apart from the revert of readiness
\* to recording; a session that is completed stays completed.
C27_SessionStatusForward ==
    [][\A sid \in SessionIds :
        sessions[sid].exists
        => \/ SessionRank(sessions'[sid].status) >= SessionRank(sessions[sid].status)
           \/ /\ sessions[sid].status = "ready_for_enhancement"
              /\ sessions'[sid].status = "recording"]_vars

\* ------------------------------------------------------------------ C28
\* a process_segment call, or the upload route about to make one, is under
\* way for the session
SegmentCallUnderWay(sid) ==
    \E t \in Threads :
        pc[t] \in {"stored", "converting", "transcribing", "ready"} /\ loc[t].sid = sid

\* C28: whatever the interleaving of the process_segment calls of a
\* session, once none is under way and every registered segment (there is
\* one at least) is completed with a valid transcription, the session is
\* ready_for_enhancement, or completed if enhance has run since.
C28_LastCompletionSetsReady ==
    \A sid \in SessionIds :
        (/\ sessions[sid].exists
         /\ sessions[sid].segments # << >>
         /\ ~SegmentCallUnderWay(sid)
         /\ \A i \in 1..Len(sessions[sid].segments) :
                LET seg == objs[sessions[sid].segments[i][2]]
                IN  seg.status = "completed" /\ ValidText(seg.transcription))
        => sessions[sid].status \in {"ready_for_enhancement", "completed"}

\* two segments of a session are completed, no call is under way, and the
\* session is ready_for_enhancement: the call that completed the second
\* one has just returned its transcript
C28_Witness ==
    /\ sessions[1].exists
    /\ Len(sessions[1].segments) = 2
    /\ ~SegmentCallUnderWay(1)
    /\ \A i \in 1..2 : objs[sessions[1].segments[i][2]].status = "completed"
    /\ sessions[1].status = "ready_for_enhancement"
    /\ last.loc.op = "segment" /\ last.resp.code = "200"

\* ------------------------------------------------------------------ C29
\* C29: when the worker of a chunk gets from the backend a transcript that
\* is missing, not a text or blank, the pass records the chunk as failed,
\* does not mark it processed and keeps its transcript out of the results
\* the final text is assembled from.
C29_BatchValidatesTranscripts ==
    [][\A t \in Threads, k \in 1..MaxChunks, result \in BackendResults :
        (WorkerFinish(t, k, result) /\ ~ValidText(result))
        => LET task == pass[t].tasks[k]
               i == get_chunk(active_sessions', pass[t].sid, task.id)
           IN  /\ \E j \in 1..Len(pass'[t].failed_chunks) :
                        pass'[t].failed_chunks[j] = task.id
               /\ pass'[t].results = pass[t].results
               /\ i # 0 => active_sessions'[pass[t].sid].chunks[i].processed
                            = active_sessions[pass[t].sid].chunks[i].processed]_vars

\* ------------------------------------------------------------------ C30
\* the chunks of the session that are not marked processed and have fewer
\* than MaxAttempts attempts recorded
Unprocessed(sid) ==
    {i \in 1..Len(active_sessions[sid].chunks) :
        /\ ~active_sessions[sid].chunks[i].processed
        /\ active_sessions[sid].chunks[i].processing_attempts < MaxAttempts}

\* C30: a pass that starts dispatches exactly the chunks of its session
\* that are not marked processed and have fewer than 3 attempts recorded,
\* each one once, and dispatches no segment that has been marked processed.
C30_PassDispatchesUnprocessed ==
    [][\A t \in Threads :
        (pass[t].pc = "idle" /\ pass'[t].pc = "running")
        => LET sid == pass'[t].sid
               tasks == pass'[t].tasks
               C == active_sessions[sid].chunks
           IN  /\ {tasks[k].idx : k \in 1..Len(tasks)} = Unprocessed(sid)
               /\ Len(tasks) = Cardinality(Unprocessed(sid))
               /\ \A k \in 1..Len(tasks) :
                    ~\E i \in 1..Len(C) : C[i].id = tasks[k].id /\ C[i].processed]_vars

\* ------------------------------------------------------------------ C31
\* a worker of a pass on the session is queued or running
WorkerInFlight(sid) ==
    \E t \in Threads :
        /\ pass[t].pc = "running"
        /\ pass[t].sid = sid
        /\ Running(pass[t]) \cup Queued(pass[t]) # {}

\* C31: a pass sets the session to processing before a worker of it is
\* dispatched, writes partial_failure or completed only once every worker
\* it dispatched has finished, and the session is in processing while a
\* worker of it is in flight.
C31_ProcessingWhileInFlight ==
    /\ [](\A sid \in SessionIds :
            (active_sessions[sid].exists /\ WorkerInFlight(sid))
                => active_sessions[sid].status = "processing")
    /\ [][\A t \in Threads :
            /\ (pass[t].pc = "idle" /\ pass'[t].pc = "running")
                => /\ active_sessions'[pass'[t].sid].status = "processing"
                   /\ \A k \in 1..Len(pass'[t].tasks) : pass'[t].tasks[k].st = "queued"
            /\ (pass[t].pc = "running" /\ pass'[t].pc = "idle")
                => \A k \in 1..Len(pass[t].tasks) : pass[t].tasks[k].st \in {"ok", "fail"}]_vars

\* ------------------------------------------------------------------ C32
\* C32: mark_chunk_processed and mark_chunk_failed called for a session or
\* a chunk id the registry does not hold, and get_unprocessed_chunks called
\* for a session it does not hold, fail with NotFound.
C32_UnknownIdsFailNotFound ==
    [][/\ \A sid \in SessionIds \cup {UnknownSid}, seq \in SegNums :
            ((\/ \E result \in MarkResults :
                    MarkChunkProcessed(sid, <<sid, seq>>, result)
              \/ MarkChunkFailed(sid, <<sid, seq>>))
             /\ get_chunk(active_sessions, sid, <<sid, seq>>) = 0)
            => blast'.status = "NotFound"
       /\ \A sid \in SessionIds \cup {UnknownSid} :
            (GetUnprocessedChunks(sid)
             /\ ~(sid \in CMSessionIds /\ active_sessions[sid].exists))
            => blast'.status = "NotFound"]_vars

\* ------------------------------------------------------------------ C33
\* C33: for a session that enhance has completed, the combined_text that
\* get_status returns is the combined text that was enhanced: a text, and
\* the one the stored enhanced text was made from.
C33_StatusReturnsCombinedText ==
    [][\A t \in Threads, sid \in SessionIds :
        (GetStatus(t, sid) /\ sessions[sid].exists
            /\ sessions[sid].status = "completed")
        => /\ last'.resp.text.k = "str"
           /\ Str(enhance(last'.resp.text.s)) = sessions[sid].enhanced_text]_vars

\* ------------------------------------------------------------------ C34
\* C34: a converter run that exits 0 and leaves an empty output file is a
\* converter failure: the process_segment call fails, the segment is put
\* in error with a message, and the transcription backend is not invoked
\* on the empty file.
C34_EmptyOutputIsFailure ==
    [][\A t \in Threads :
        ConvertReturn(t, "ok_empty")
            => /\ objs'[loc[t].oid].status = "error"
               /\ objs'[loc[t].oid].error # ""
               /\ tcalls' = tcalls
               /\ pc'[t] = "idle" /\ last'.resp.code = "exc"]_vars

ProcessedPairs(A, sid) ==
    {<<A[sid].chunks[i].sequence, A[sid].chunks[i].result>> :
        i \in {j \in 1..Len(A[sid].chunks) : A[sid].chunks[j].processed}}

\* every chunk of the session has its own sequence number and every
\* processed one holds a text
PlainChunks(A, sid) ==
    /\ \A i, j \in 1..Len(A[sid].chunks) :
            A[sid].chunks[i].sequence = A[sid].chunks[j].sequence => i = j
    /\ \A p \in ProcessedPairs(A, sid) : p[2].k = "str"

\* C36: when a pass leaves the session completed, the transcript stored in
\* the session is the join, by ascending sequence number and with single
\* blanks, of the transcripts of all the chunks marked processed, those of
\* earlier passes included.
C36_FinalTranscriptCoversProcessed ==
    [][\A t \in Threads :
        (/\ BatchFinish(t)
         /\ active_sessions'[pass[t].sid].exists
         /\ active_sessions'[pass[t].sid].status = "completed"
         /\ PlainChunks(active_sessions', pass[t].sid))
        => active_sessions'[pass[t].sid].result.transcript
                = Str(AscJoin(ProcessedPairs(active_sessions', pass[t].sid)))]_vars

\* ------------------------------------------------------------------ C37
\* C37: in every state of the registry, total_chunks of a session is the
\* number of its stored chunks and processed_chunks the number of its
\* chunks flagged processed, so that processed_chunks is at most
\* total_chunks and the progress percentage lies between 0 and 100.
C37_CountersMatchChunks ==
    \A sid \in SessionIds :
        active_sessions[sid].exists
        => LET session == active_sessions[sid]
               flagged == {i \in 1..Len(session.chunks) : session.chunks[i].processed}
               progress == session_progress(active_sessions, sid)
           IN  /\ session.total_chunks = Len(session.chunks)
               /\ session.processed_chunks = Cardinality(flagged)
               /\ session.processed_chunks <= session.total_chunks
               /\ 0 <= progress.num /\ progress.num <= 100 * progress.den

\* ------------------------------------------------------------------ C38
\* C38: an upload that the route rejects before it registers a segment (a
\* field missing, an unknown session, a file of zero bytes) leaves every
\* session as it was, config and status included, and registers or
\* replaces no segment.
C38_RejectedUploadChangesNothing ==
    [][\A t \in Threads, req \in UploadRequests \cup BadRequests :
        (SubmitSegment(t, req) /\ pc'[t] = "idle")
        => /\ sessions' = sessions
           /\ objs' = objs]_vars

\* ------------------------------------------------------------------ C39
\* C39: when the enhancement backend fails, enhance_session answers with
\* an error and changes nothing: the status, the enhanced text and every
\* other field of every session are as before, and so are the segments.
C39_EnhanceFailureChangesNothing ==
    [][\A t \in Threads :
        EnhanceReturn(t, FALSE)
        => /\ last'.resp.code = "500"
           /\ last'.resp.err # ""
           /\ sessions' = sessions
           /\ objs' = objs]_vars

\* an enhance call has just failed at the backend and its session, with a
\* valid segment, is still ready_for_enhancement and holds no enhanced text
C39_Witness ==
    /\ last.loc.op = "enhance"
    /\ last.loc.called
    /\ last.resp.code = "500"
    /\ last.loc.valid >= 1
    /\ sessions[last.loc.sid].status = "ready_for_enhancement"
    /\ sessions[last.loc.sid].enhanced_text = None
====
